---- MODULE Spec2Model ----
(***************************************************************************)
(* A model of google_pem: the escaped-pair parser (src/src/parse.rs), the  *)
(* fixed-capacity key table (src/src/keys.rs) and the caching wrapper      *)
(* (src/src/cache.rs, with the Instant/Age helpers of src/src/fetch.rs).   *)
(*                                                                         *)
(* Bytes are their ASCII codes.  Offsets are 0-based as in the Rust code;  *)
(* TLA+ sequences are 1-based, so byte i of a sequence s is s[i + 1].      *)
(***************************************************************************)
EXTENDS Integers, Sequences, FiniteSets, TLC

VARIABLES
    \* ---- unescape (parse.rs) ----
    us,          \* the slice handed to unescape
    ur,          \* what unescape returned: NoResult, or [buf, len]
    \* ---- Parse (parse.rs) ----
    mem,         \* the memory starting at the buffer's first byte
    blen,        \* data.len(): the buffer is mem[0 .. blen)
    data0,       \* the buffer's bytes when the parser was created
    ptr,         \* Parse.ptr, as an offset from the buffer's first byte
    plen,        \* Parse.len
    out,         \* the pairs next() has yielded so far
    pstat,       \* "run", "done" (next() returned None), "fault"
    hi,          \* highest offset the parser has read or written, -1 if none
    \* ---- keys::Keys (keys.rs) ----
    keys,        \* the table: [id, key, len]
    last,        \* the last table operation: [op, args, pre, res, taken]
    \* ---- cache::Keys (cache.rs) ----
    expiration,  \* MaybeUninit<INSTANT>
    now,         \* the clock INSTANT::now() reads
    call,        \* the last cache validate: [op, res, fetched, failed, pre_len, pre_expiration]
    allok,       \* every refresh so far succeeded and left a non-empty table
    panicked,    \* a validate call panicked
    vpc,         \* where a validate call is suspended: "idle" (no call in
                 \* progress) or the await of fetch::into it waits at
    \* ---- fetch (fetch.rs) ----
    age_in,      \* the Age and the instant handed to Age::expiration
    age_out,     \* what Age::expiration returned: NoExpiration, or [panic, time]
    response,    \* the bytes handed to process_headers
    hres,        \* what process_headers returned: NoHeaders, or [res, age, body]
    fs,          \* fetch::into: [pc, cap, bytes_read, res, read_failed]
    \* ---- keys::Keys::validate (keys.rs) ----
    vin,         \* the pairs the table was filled from and the token validated
    vres,        \* what Keys::validate returned, "none" before the call
    \* ---- keys::Keys::extend_fetch_into (keys.rs) ----
    xin,         \* the bytes the fetch wrote, and what the caller's buffer holds after them
    xres         \* what extend_fetch_into returned on the buffer whose rest
                 \* is zeroed, and on the buffer whose rest is xin.rest

vars == <<us, ur, mem, blen, data0, ptr, plen, out, pstat, hi, keys, last,
          expiration, now, call, allok, panicked, vpc, age_in, age_out,
          response, hres, fs, vin, vres, xin, xres>>
tableVars == <<keys, last>>
cacheVars == <<expiration, now, call, allok, panicked, vpc>>
unescapeVars == <<us, ur>>
parseVars == <<mem, blen, data0, ptr, plen, out, pstat, hi>>
ageVars == <<age_in, age_out>>
headerVars == <<response, hres>>
validateVars == <<vin, vres>>
extendVars == <<xin, xres>>
intoVars == <<fs>>
fetchVars == <<ageVars, headerVars, intoVars>>

(***************************************************************************)
(* Bytes                                                                   *)
(***************************************************************************)
Quote == 34
Backslash == 92
LetterN == 110
Newline == 10

\* Longest slice given to unescape, longest parser buffer, and the most
\* readable bytes that follow the buffer in memory.
MaxUnescLen == 5
MaxBuf == 8
MaxTail == 2

UnescBytes == {Quote, Backslash, LetterN, Newline, 120}
ParseBytes == {Quote, Backslash, LetterN}

SeqsUpTo(S, n) == UNION {[1..k -> S] : k \in 0..n}

Max(a, b) == IF a >= b THEN a ELSE b

\* b"hello\\nworld\\n" and b"hello\nworld\n" of test_unescape
HelloEscaped == <<104,101,108,108,111,92,110,119,111,114,108,100,92,110>>
HelloPlain == <<104,101,108,108,111,10,119,111,114,108,100,10>>

(***************************************************************************)
(* unescape                                                                *)
(***************************************************************************)
\* s.copy_within(src.., dest): the bytes from offset src to the end are
\* copied to offset dest; every other byte keeps its value.
copy_within(s, src, dest) ==
    [j \in 1..Len(s) |->
        IF j - 1 >= dest /\ j - 1 < dest + (Len(s) - src)
        THEN s[j - dest + src]
        ELSE s[j]]

RECURSIVE unescape_loop(_, _, _)
unescape_loop(s, i, n) ==
    IF i >= Len(s) THEN [buf |-> s, len |-> Len(s) - n]
    ELSE IF s[i + 1] = Backslash /\ (i + 1) < Len(s) /\ s[i + 2] = LetterN
         THEN unescape_loop(copy_within([s EXCEPT ![i + 1] = Newline], i + 2, i + 1),
                            i + 1, n + 1)
         ELSE unescape_loop(s, i + 1, n)

\* The variant that rewrites the bytes but forgets to count the substitution.
RECURSIVE unescape_loop_nocount(_, _, _)
unescape_loop_nocount(s, i, n) ==
    IF i >= Len(s) THEN [buf |-> s, len |-> Len(s) - n]
    ELSE IF s[i + 1] = Backslash /\ (i + 1) < Len(s) /\ s[i + 2] = LetterN
         THEN unescape_loop_nocount(
                 copy_within([s EXCEPT ![i + 1] = Newline], i + 2, i + 1), i + 1, n)
         ELSE unescape_loop_nocount(s, i + 1, n)

unescape_nocount(s) == unescape_loop_nocount(s, 0, 0)

\* unescape(s): buf is s as the call leaves it, len the length of the
\* returned prefix &mut s[..new_len].
unescape(s) == unescape_loop(s, 0, 0)

NoResult == [buf |-> <<>>, len |-> -1]

(***************************************************************************)
(* Parse                                                                   *)
(***************************************************************************)
\* The for loop of next(): i runs over 0..self.len, reading *self.ptr.add(i).
\* A read past the last readable byte of memory faults.
RECURSIVE scan(_, _, _, _, _)
scan(m, p, n, i, indices) ==
    IF i >= n THEN [kind |-> "none", indices |-> indices, i |-> i]
    ELSE IF p + i >= Len(m) THEN [kind |-> "fault", indices |-> indices, i |-> i]
    ELSE IF m[p + i + 1] = Quote
         THEN IF Len(indices) = 3
              THEN [kind |-> "some", indices |-> Append(indices, i), i |-> i]
              ELSE scan(m, p, n, i + 1, Append(indices, i))
         ELSE scan(m, p, n, i + 1, indices)

\* mem with the bytes from offset start replaced by the bytes of r
Patch(m, start, r) ==
    [j \in 1..Len(m) |->
        IF j - 1 >= start /\ j - 1 < start + Len(r) THEN r[j - start] ELSE m[j]]

Slice(m, off, n) == SubSeq(m, off + 1, off + n)

\* Parse::new over a buffer b that is followed in memory by the bytes t
ParseNew(b, t) ==
    /\ mem = b \o t
    /\ blen = Len(b)
    /\ data0 = b
    /\ ptr = 0
    /\ plen = Len(b)
    /\ out = <<>>
    /\ pstat = "run"
    /\ hi = -1

ParseIdle == ParseNew(<<>>, <<>>)

\* Parse::next
ParseNext ==
    /\ pstat = "run"
    /\ LET r == scan(mem, ptr, plen, 0, <<>>) IN
       CASE r.kind = "some" ->
              LET id_off == ptr + r.indices[1] + 1
                  id_len == r.indices[2] - r.indices[1] - 1
                  key_off == ptr + r.indices[3] + 1
                  key_cap == r.indices[4] - r.indices[3] - 1
                  u == unescape(Slice(mem, key_off, key_cap))
                  mem2 == Patch(mem, key_off, u.buf)
              IN /\ mem' = mem2
                 /\ out' = Append(out, [id_off |-> id_off, id_len |-> id_len,
                                        key_off |-> key_off, key_len |-> u.len,
                                        id |-> Slice(mem2, id_off, id_len),
                                        key |-> Slice(mem2, key_off, u.len)])
                 /\ ptr' = ptr + r.i + 1
                 /\ hi' = Max(hi, ptr + r.i)
                 /\ UNCHANGED <<plen, pstat>>
         [] r.kind = "none" ->
              /\ plen' = 0
              /\ pstat' = "done"
              /\ hi' = Max(hi, ptr + plen - 1)
              /\ UNCHANGED <<mem, out, ptr>>
         [] r.kind = "fault" ->
              /\ pstat' = "fault"
              /\ hi' = Max(hi, ptr + r.i)
              /\ UNCHANGED <<mem, out, ptr, plen>>
    /\ UNCHANGED <<blen, data0, unescapeVars, tableVars, cacheVars, fetchVars, validateVars, extendVars>>

(***************************************************************************)
(* keys::Keys, the fixed-capacity key table                                *)
(***************************************************************************)
KEYS_CAPACITY == 2 + 2

\* Number of distinct values of the model's identifier hash, and the
\* longest sequence of pairs handed to extend_try.
HashRange == 2
MaxPairs == 5

\* MaybeUninit: a slot never written is the empty sequence, a written slot
\* the one-element sequence of its value.
Uninit == <<>>
MaybeUninitNew(x) == <<x>>
assume_init(slot) == slot[1]

RECURSIVE SumBytes(_)
SumBytes(a) == IF a = <<>> THEN 0 ELSE a[1] + SumBytes(Tail(a))

\* hash: DefaultHasher over the identifier's bytes.  The model keeps what
\* the table relies on: a deterministic function of the bytes that is not
\* injective.
hash(a) == (SumBytes(a) + Len(a)) % HashRange

\* DecodingKey::from_rsa_pem: a PEM document starts with '-' (45, as in
\* "-----BEGIN"); anything else fails to parse.  The decoded key is the
\* document's content.
from_rsa_pem(k) ==
    IF k # <<>> /\ k[1] = 45
    THEN [ok |-> TRUE, key |-> Tail(k)]
    ELSE [ok |-> FALSE, key |-> <<>>]

\* Keys::new
KeysNew ==
    [id |-> [i \in 0..(KEYS_CAPACITY - 1) |-> Uninit],
     key |-> [i \in 0..(KEYS_CAPACITY - 1) |-> Uninit],
     len |-> 0]

\* The variant that leaves len as it is.
clear_keep(t) == t

\* Keys::clear
clear(t) == [t EXCEPT !.len = 0]

\* The variant that stores the identifier's hash before the key is parsed.
push_unchecked_eager(t, id_bytes, key_bytes) ==
    LET id_hash == hash(id_bytes)
        parsed == from_rsa_pem(key_bytes)
        i == t.len
        t1 == [t EXCEPT !.id = [t.id EXCEPT ![i] = MaybeUninitNew(id_hash)]]
    IN IF ~parsed.ok
       THEN [t |-> t1, res |-> "Err"]
       ELSE [t |-> [t1 EXCEPT !.key = [t.key EXCEPT ![i] = MaybeUninitNew(parsed.key)],
                              !.len = t.len + 1],
             res |-> "Ok"]

\* Keys::push_unchecked: hash, parse, and only then the three writes
push_unchecked(t, id_bytes, key_bytes) ==
    LET id_hash == hash(id_bytes)
        parsed == from_rsa_pem(key_bytes)
        i == t.len
    IN IF ~parsed.ok
       THEN [t |-> t, res |-> "Err"]
       ELSE [t |-> [id |-> [t.id EXCEPT ![i] = MaybeUninitNew(id_hash)],
                    key |-> [t.key EXCEPT ![i] = MaybeUninitNew(parsed.key)],
                    len |-> t.len + 1],
             res |-> "Ok"]

\* The variant whose capacity test is off by one (> for >=).
push_offbyone(t, id_bytes, key_bytes) ==
    IF t.len > KEYS_CAPACITY
    THEN [t |-> t, res |-> "Ok(false)"]
    ELSE LET r == push_unchecked(t, id_bytes, key_bytes) IN
         IF r.res = "Err" THEN r ELSE [t |-> r.t, res |-> "Ok(true)"]

\* Keys::push: Ok(false) when full, else the parse's error or Ok(true)
push(t, id_bytes, key_bytes) ==
    IF t.len >= KEYS_CAPACITY
    THEN [t |-> t, res |-> "Ok(false)"]
    ELSE LET r == push_unchecked(t, id_bytes, key_bytes) IN
         IF r.res = "Err" THEN r ELSE [t |-> r.t, res |-> "Ok(true)"]

\* Keys::extend_try: pairs is what the iterator would yield; taken counts
\* the items the for loop took from it.
RECURSIVE extend_try_from(_, _, _)
extend_try_from(t, pairs, k) ==
    IF k > Len(pairs) THEN [t |-> t, res |-> "Ok(true)", taken |-> k - 1]
    ELSE LET r == push(t, pairs[k][1], pairs[k][2]) IN
         CASE r.res = "Err" -> [t |-> r.t, res |-> "Err", taken |-> k]
           [] r.res = "Ok(false)" -> [t |-> r.t, res |-> "Ok(false)", taken |-> k]
           [] OTHER -> extend_try_from(r.t, pairs, k + 1)

\* The variant that ignores push's "was there space" answer.
RECURSIVE extend_try_deaf_from(_, _, _)
extend_try_deaf_from(t, pairs, k) ==
    IF k > Len(pairs) THEN [t |-> t, res |-> "Ok(true)", taken |-> k - 1]
    ELSE LET r == push(t, pairs[k][1], pairs[k][2]) IN
         IF r.res = "Err" THEN [t |-> r.t, res |-> "Err", taken |-> k]
         ELSE extend_try_deaf_from(r.t, pairs, k + 1)

extend_try_deaf(t, pairs) == extend_try_deaf_from(t, pairs, 1)

extend_try(t, pairs) == extend_try_from(t, pairs, 1)

\* Keys::iter: the first len slots, as (id, key) pairs
iter(t) == [i \in 1..t.len |-> <<assume_init(t.id[i - 1]), assume_init(t.key[i - 1])>>]

None == <<>>
Some(x) == <<x>>

\* The variant that searches every written slot, whatever len says, and
\* returns the last match.
get_anyslot(t, id_bytes) ==
    LET h == hash(id_bytes)
        hits == {i \in 0..(KEYS_CAPACITY - 1) : t.id[i] = MaybeUninitNew(h)}
    IN IF hits = {} THEN None
       ELSE Some(assume_init(t.key[CHOOSE i \in hits : \A j \in hits : i >= j]))

\* Keys::get: the key of the first entry whose hash is the identifier's
get(t, id_bytes) ==
    LET h == hash(id_bytes)
        hits == {i \in 1..t.len : iter(t)[i][1] = h}
    IN IF hits = {} THEN None
       ELSE Some(iter(t)[CHOOSE i \in hits : \A j \in hits : i <= j][2])

\* ---- the inputs of the table's operations ----
IdA == <<97>>
IdB == <<98>>
IdC == <<99>>
Ids == {IdA, IdB, IdC}
IdList == <<IdA, IdB, IdC>>
GoodKey1 == <<45, 1>>
GoodKey2 == <<45, 2>>
BadKey == <<120>>
KeyBytes == {GoodKey1, GoodKey2, BadKey}
GoodKeyList == <<GoodKey1, GoodKey2>>

\* The sequences handed to extend_try: m pairs, the key at position bad (if
\* any) malformed, the other keys alternating.  With a = 0 the identifiers
\* cycle through IdList; with a = 1 they alternate IdA and IdC (one hash) for
\* the first KEYS_CAPACITY pairs and go on with IdB (the other hash).
IdAt(a, i) ==
    IF a = 1
    THEN IF i > KEYS_CAPACITY THEN IdB ELSE IF i % 2 = 1 THEN IdA ELSE IdC
    ELSE IdList[((i - 1) % Len(IdList)) + 1]

PairAt(a, bad, i) ==
    <<IdAt(a, i),
      IF i = bad THEN BadKey ELSE GoodKeyList[((a + i) % Len(GoodKeyList)) + 1]>>

PairSeqs ==
    UNION {{[i \in 1..m |-> PairAt(a, bad, i)] :
                a \in 0..1, bad \in 0..m} :
           m \in 0..MaxPairs}

NoOp == [op |-> "new", args |-> <<>>, pre |-> KeysNew, res |-> "none", taken |-> 0]

TableNew == keys = KeysNew /\ last = NoOp

Push ==
    \E id_bytes \in Ids, key_bytes \in KeyBytes :
        \E r \in {push(keys, id_bytes, key_bytes)} :
        /\ keys' = r.t
        /\ last' = [op |-> "push", args |-> <<<<id_bytes, key_bytes>>>>,
                    pre |-> keys, res |-> r.res, taken |-> 0]
        /\ UNCHANGED <<unescapeVars, parseVars, cacheVars, fetchVars, validateVars, extendVars>>

ExtendTry ==
    \E pairs \in PairSeqs :
        \E r \in {extend_try(keys, pairs)} :
        /\ keys' = r.t
        /\ last' = [op |-> "extend_try", args |-> pairs, pre |-> keys, res |-> r.res,
                    taken |-> r.taken]
        /\ UNCHANGED <<unescapeVars, parseVars, cacheVars, fetchVars, validateVars, extendVars>>

Clear ==
    /\ keys' = clear(keys)
    /\ last' = [op |-> "clear", args |-> <<>>, pre |-> keys, res |-> "none", taken |-> 0]
    /\ UNCHANGED <<unescapeVars, parseVars, cacheVars, fetchVars, validateVars, extendVars>>

(***************************************************************************)
(* fetch::Instant and fetch::Age                                           *)
(***************************************************************************)
\* Latest clock reading, largest max-age and Age header, and the most pairs
\* in a fetched response.
MaxTime == 3
MaxAge == 1
MaxFetchedPairs == 2

\* Instant::is_before for SystemTime / std::time::Instant: self < other
is_before(self, other) == self < other

\* Instant::is_expired: self.is_before(&Self::now())
is_expired(self, clock) == is_before(self, clock)

\* Age::expiration: time.add_seconds(self.max_age - self.age).  With
\* max_age < age the u64 subtraction overflows: a debug build panics there,
\* a release build wraps to 2^64 - (age - max_age), which for every
\* difference below 2^63 overflows the addition to the instant, and that
\* panics too.
age_expiration(age, time) ==
    IF age.max_age < age.age
    THEN [panic |-> TRUE, time |-> time]
    ELSE [panic |-> FALSE, time |-> time + (age.max_age - age.age)]

\* Age::expiration_now
expiration_now(age, clock) == age_expiration(age, clock)

(***************************************************************************)
(* keys::Keys::validate and the fetch behind extend_fetch                  *)
(***************************************************************************)
\* A token: whether its header decodes, its kid, and the key its signature
\* and claims verify under.
Tokens ==
    {[hdr_ok |-> FALSE, kid |-> None, sig |-> <<1>>],
     [hdr_ok |-> TRUE, kid |-> None, sig |-> <<1>>]}
    \cup {[hdr_ok |-> TRUE, kid |-> Some(i), sig |-> <<1>>] : i \in Ids}

\* jsonwebtoken::decode(token, key, &VALIDATION)
decode(token, key) == token.sig = key

\* The variant that falls back on the table's first key when the lookup
\* finds none.
keys_validate_anykey(t, token) ==
    IF ~token.hdr_ok THEN "DecodeHeader"
    ELSE IF token.kid = None THEN "TokenMissingKeyId"
    ELSE LET found == get(t, token.kid[1])
             key == IF found = None /\ t.len > 0 THEN t.key[0] ELSE found
         IN IF key = None THEN "UnknownKey"
            ELSE IF decode(token, key[1]) THEN "Ok" ELSE "DecodeToken"

\* keys::Keys::validate
keys_validate(t, token) ==
    IF ~token.hdr_ok THEN "DecodeHeader"
    ELSE IF token.kid = None THEN "TokenMissingKeyId"
    ELSE LET key == get(t, token.kid[1]) IN
         IF key = None THEN "UnknownKey"
         ELSE IF decode(token, key[1]) THEN "Ok" ELSE "DecodeToken"

\* What a fetch delivers: a transport error of fetch::into, or a response,
\* given by what process_headers makes of it (an error, or the Age) and by
\* the pairs the parser yields from its body.  read_err tells whether the
\* response is what was read before a read failed: fetch::into returns Ok
\* then as well.
Ages == [age : 0..MaxAge, max_age : 0..MaxAge]

FetchedPairs == {p \in PairSeqs : Len(p) <= MaxFetchedPairs /\ (p = <<>> \/ p[1][1] = IdA)}

NoAge == [age |-> 0, max_age |-> 0]

Fetched ==
    {[into |-> e, read_err |-> FALSE, headers |-> "Ok", age |-> NoAge, pairs |-> <<>>] :
        e \in {"Connect", "ConnectTcp", "RequestWrite"}}
    \cup {[into |-> "Ok", read_err |-> x, headers |-> e, age |-> NoAge, pairs |-> <<>>] :
        e \in {"MaxAge", "Body"}, x \in BOOLEAN}
    \cup {[into |-> "Ok", read_err |-> x, headers |-> "Ok", age |-> a, pairs |-> p] :
        a \in Ages, p \in FetchedPairs, x \in BOOLEAN}

\* keys::Keys::extend_fetch_into (called by extend_fetch on a new buffer):
\* each ? returns the error at once; the table keeps what extend_try pushed.
extend_fetch_into(t, f) ==
    IF f.into # "Ok" THEN [t |-> t, res |-> "Fetch", age |-> NoAge]
    ELSE IF f.headers # "Ok" THEN [t |-> t, res |-> "HttpProcess", age |-> NoAge]
    ELSE LET r == extend_try(t, f.pairs) IN
         IF r.res = "Err" THEN [t |-> r.t, res |-> "Jwt", age |-> NoAge]
         ELSE [t |-> r.t, res |-> "Ok", age |-> f.age]

(***************************************************************************)
(* cache::Keys                                                             *)
(***************************************************************************)
\* cache::Keys::is_valid, as the set of answers it can give: reading an
\* expiration that was never written is undefined behaviour, and any answer
\* is possible.
is_valid(t, exp, clock) ==
    IF t.len = 0 THEN {FALSE}
    ELSE IF exp = Uninit THEN BOOLEAN
    ELSE {is_expired(assume_init(exp), clock)}

\* The refresh that receives f fails: the transport failed (connecting,
\* writing or reading), a header is missing, or one of the keys that fit
\* the table does not parse.
RefreshFails(f) ==
    \/ f.into # "Ok"
    \/ f.read_err
    \/ f.headers # "Ok"
    \/ \E i \in 1..Len(f.pairs) : i <= KEYS_CAPACITY /\ ~from_rsa_pem(f.pairs[i][2]).ok

NoCall == [op |-> "new", res |-> "none", fetched |-> 0, failed |-> FALSE,
           pre_len |-> 0, pre_expiration |-> Uninit]

\* cache::Keys::new
CacheNew ==
    /\ expiration = Uninit
    /\ call = NoCall
    /\ allok = TRUE
    /\ panicked = FALSE
    /\ vpc = "idle"

\* cache::Keys::validate.  The token is looked at only by the final
\* self.keys.validate(token).
Validate ==
    /\ ~panicked
    /\ vpc = "idle"
    /\ \E valid \in is_valid(keys, expiration, now) :
        IF valid
        THEN \E token \in Tokens :
             /\ call' = [op |-> "validate", fetched |-> 0, failed |-> FALSE,
                         res |-> keys_validate(keys, token),
                         pre_len |-> keys.len, pre_expiration |-> expiration]
             /\ UNCHANGED <<keys, expiration, allok, panicked>>
        ELSE \E f \in Fetched : \E r \in {extend_fetch_into(clear(keys), f)} :
             LET e == expiration_now(r.age, now)
                 rec == [op |-> "validate", fetched |-> 1, res |-> "none",
                         failed |-> RefreshFails(f),
                         pre_len |-> keys.len, pre_expiration |-> expiration]
             IN /\ keys' = r.t
                /\ allok' = (allok /\ r.res = "Ok" /\ ~f.read_err /\ ~e.panic /\ r.t.len > 0)
                /\ IF r.res # "Ok"
                   THEN /\ call' = [rec EXCEPT !.res = "FetchExtend"]
                        /\ UNCHANGED <<expiration, panicked>>
                   ELSE IF e.panic
                   THEN /\ call' = [rec EXCEPT !.res = "panic"]
                        /\ panicked' = TRUE
                        /\ UNCHANGED expiration
                   ELSE \E token \in Tokens :
                        /\ expiration' = MaybeUninitNew(e.time)
                        /\ call' = [rec EXCEPT !.res = keys_validate(r.t, token)]
                        /\ UNCHANGED panicked
    /\ UNCHANGED <<now, last, vpc, unescapeVars, parseVars, fetchVars, validateVars, extendVars>>

\* The same call, one step per suspension.  A validate that has to refresh
\* clears the table and is suspended in extend_fetch().await, at the awaits
\* of fetch::into: connect, TLS, write, read.
FetchAwaits == <<"connect", "tls", "write", "read">>

\* The variant that drops the table when the token is rejected.
ValidateFresh_dropping ==
    /\ ~panicked
    /\ vpc = "idle"
    /\ TRUE \in is_valid(keys, expiration, now)
    /\ \E token \in Tokens :
          /\ call' = [op |-> "validate", fetched |-> 0, failed |-> FALSE,
                      res |-> keys_validate(keys, token),
                      pre_len |-> keys.len, pre_expiration |-> expiration]
          /\ keys' = IF keys_validate(keys, token) = "Ok" THEN keys ELSE clear(keys)
    /\ UNCHANGED <<expiration, allok, panicked, vpc, now, last, unescapeVars,
                   parseVars, fetchVars, validateVars, extendVars>>

\* is_valid answers true: the call goes straight to self.keys.validate(token)
ValidateFresh ==
    /\ ~panicked
    /\ vpc = "idle"
    /\ TRUE \in is_valid(keys, expiration, now)
    /\ \E token \in Tokens :
          call' = [op |-> "validate", fetched |-> 0, failed |-> FALSE,
                   res |-> keys_validate(keys, token),
                   pre_len |-> keys.len, pre_expiration |-> expiration]
    /\ UNCHANGED <<keys, expiration, allok, panicked, vpc, now, last, unescapeVars,
                   parseVars, fetchVars, validateVars, extendVars>>

ValidateSuspend ==
    /\ ~panicked
    /\ vpc = "idle"
    /\ FALSE \in is_valid(keys, expiration, now)
    /\ keys' = clear(keys)
    /\ vpc' = FetchAwaits[1]
    /\ call' = [op |-> "suspended", fetched |-> 1, res |-> "none", failed |-> FALSE,
                pre_len |-> keys.len, pre_expiration |-> expiration]
    /\ UNCHANGED <<expiration, allok, panicked, now, last, unescapeVars, parseVars,
                   fetchVars, validateVars, extendVars>>

\* connect, the TLS handshake or the write completed: on to the next await
FetchAwait ==
    /\ \E i \in 1..(Len(FetchAwaits) - 1) :
          vpc = FetchAwaits[i] /\ vpc' = FetchAwaits[i + 1]
    /\ UNCHANGED <<keys, last, expiration, now, call, allok, panicked, unescapeVars,
                   parseVars, fetchVars, validateVars, extendVars>>

\* what fetch::into can deliver when it leaves the await it is suspended at
FetchedAt(pos) ==
    {f \in Fetched :
        f.into = (CASE pos = "connect" -> "Connect"
                    [] pos = "tls" -> "ConnectTcp"
                    [] pos = "write" -> "RequestWrite"
                    [] OTHER -> "Ok")}

\* fetch::into returns and the call runs to its end without suspending:
\* process_headers, extend_try, the deadline, the token
ValidateResume ==
    /\ vpc # "idle"
    /\ \E f \in FetchedAt(vpc) : \E r \in {extend_fetch_into(keys, f)} :
          LET e == expiration_now(r.age, now)
              rec == [call EXCEPT !.op = "validate", !.failed = RefreshFails(f)]
          IN /\ keys' = r.t
             /\ allok' = (allok /\ r.res = "Ok" /\ ~f.read_err /\ ~e.panic /\ r.t.len > 0)
             /\ IF r.res # "Ok"
                THEN /\ call' = [rec EXCEPT !.res = "FetchExtend"]
                     /\ UNCHANGED <<expiration, panicked>>
                ELSE IF e.panic
                THEN /\ call' = [rec EXCEPT !.res = "panic"]
                     /\ panicked' = TRUE
                     /\ UNCHANGED expiration
                ELSE \E token \in Tokens :
                     /\ expiration' = MaybeUninitNew(e.time)
                     /\ call' = [rec EXCEPT !.res = keys_validate(r.t, token)]
                     /\ UNCHANGED panicked
    /\ vpc' = "idle"
    /\ UNCHANGED <<now, last, unescapeVars, parseVars, fetchVars, validateVars, extendVars>>

\* the suspended future is dropped
Cancel ==
    /\ vpc # "idle"
    /\ vpc' = "idle"
    /\ call' = [call EXCEPT !.op = "cancelled"]
    /\ UNCHANGED <<keys, last, expiration, now, allok, panicked, unescapeVars,
                   parseVars, fetchVars, validateVars, extendVars>>

\* time passes between calls
Tick ==
    /\ ~panicked
    /\ now < MaxTime
    /\ now' = now + 1
    /\ UNCHANGED <<keys, last, expiration, call, allok, panicked, vpc, unescapeVars, parseVars, fetchVars, validateVars, extendVars>>

(***************************************************************************)
(* fetch::process_headers and fetch::body                                  *)
(***************************************************************************)
CarriageReturn == 13
Digit0 == 48
Digit9 == 57
CRLF == <<CarriageReturn, Newline>>
crlfcrlf == <<CarriageReturn, Newline, CarriageReturn, Newline>>
\* b"max-age=" and b"Age: "
MaxAgeMarker == <<109, 97, 120, 45, 97, 103, 101, 61>>
AgeMarker == <<65, 103, 101, 58, 32>>

\* memchr::memchr: the offset of the first occurrence of a byte
memchr(needle, haystack) ==
    LET hits == {i \in 0..(Len(haystack) - 1) : haystack[i + 1] = needle}
    IN IF hits = {} THEN None ELSE Some(CHOOSE i \in hits : \A j \in hits : i <= j)

\* memchr::memmem::find: the offset of the first occurrence of a byte string
memmem_find(haystack, needle) ==
    LET hits == {i \in 0..(Len(haystack) - Len(needle)) :
                    SubSeq(haystack, i + 1, i + Len(needle)) = needle}
    IN IF hits = {} THEN None ELSE Some(CHOOSE i \in hits : \A j \in hits : i <= j)

is_ascii_digit(c) == c >= Digit0 /\ c <= Digit9

\* data[from..].iter().take_while(is_ascii_digit).count()
RECURSIVE take_while_digits(_, _)
take_while_digits(data, from) ==
    IF from < Len(data) /\ is_ascii_digit(data[from + 1])
    THEN 1 + take_while_digits(data, from + 1)
    ELSE 0

RECURSIVE radix10(_)
radix10(number) ==
    IF number = <<>> THEN 0
    ELSE 10 * radix10(SubSeq(number, 1, Len(number) - 1))
         + (number[Len(number)] - Digit0)

\* atoi::atoi::<u64> on a run of digits: None for the empty run, else its
\* decimal value.  (It is also None when the value exceeds u64, which takes
\* 20 digits or more; the responses of the model hold shorter runs.)
atoi(number) == IF number = <<>> THEN None ELSE Some(radix10(number))

\* process_headers::find_prefixed_number
find_prefixed_number(data, prefix) ==
    LET found == memmem_find(data, prefix) IN
    IF found = None THEN None
    ELSE LET start == found[1] + Len(prefix)
             prefix_len == take_while_digits(data, start)
         IN atoi(SubSeq(data, start + 1, start + prefix_len))

\* fetch::body: the offset just after the first CR LF CR LF
body(resp) ==
    LET n == memmem_find(resp, crlfcrlf) IN
    IF n = None THEN None ELSE Some(n[1] + Len(crlfcrlf))

\* The variant that looks for the separator before it looks for max-age.
process_headers_bodyfirst(resp) ==
    LET nl == memchr(Newline, resp)
        skipped == IF nl = None THEN 0 ELSE nl[1]
        rest == SubSeq(resp, skipped + 1, Len(resp))
        max_age == find_prefixed_number(rest, MaxAgeMarker)
        age == find_prefixed_number(rest, AgeMarker)
        b == body(rest)
    IN IF b = None THEN [res |-> "Body", age |-> NoAge, body |-> 0]
       ELSE IF max_age = None THEN [res |-> "MaxAge", age |-> NoAge, body |-> 0]
       ELSE [res |-> "Ok",
             age |-> [age |-> IF age = None THEN 0 ELSE age[1], max_age |-> max_age[1]],
             body |-> b[1] + Len(crlfcrlf) + skipped]

\* fetch::process_headers
process_headers(resp) ==
    LET nl == memchr(Newline, resp)
        skipped == IF nl = None THEN 0 ELSE nl[1]
        rest == SubSeq(resp, skipped + 1, Len(resp))
        max_age == find_prefixed_number(rest, MaxAgeMarker)
        age == find_prefixed_number(rest, AgeMarker)
        b == body(rest)
    IN IF max_age = None THEN [res |-> "MaxAge", age |-> NoAge, body |-> 0]
       ELSE IF b = None THEN [res |-> "Body", age |-> NoAge, body |-> 0]
       ELSE [res |-> "Ok",
             age |-> [age |-> IF age = None THEN 0 ELSE age[1], max_age |-> max_age[1]],
             body |-> b[1] + Len(crlfcrlf) + skipped]

\* The responses handed to process_headers: up to MaxTokens pieces, each a
\* line terminator, one of the two markers, a digit or another byte; and
\* the test's sample with the headers process_headers does not look at
\* and all but the start of its body left out.
MaxTokens == 6
TokenList == <<CRLF, MaxAgeMarker, AgeMarker, <<50>>, <<120>>>>

RECURSIVE Concat(_)
Concat(ts) == IF ts = <<>> THEN <<>> ELSE TokenList[ts[1]] \o Concat(Tail(ts))

\* "HTTP/1.0 200 OK", "Cache-Control: public, max-age=22270, must-revalidate",
\* "Age: 9", a blank line, and the body's first bytes: {, LF, two spaces, "48a
SAMPLE ==
    <<72,84,84,80,47,49,46,48,32,50,48,48,32,79,75,13,10>>
    \o <<67,97,99,104,101,45,67,111,110,116,114,111,108,58,32,112,117,98,108,105,99,44,32>>
    \o MaxAgeMarker \o <<50,50,50,55,48,44,32,109,117,115,116,45,114,101,118,97,108,105,100,97,116,101,13,10>>
    \o AgeMarker \o <<57,13,10>>
    \o <<13,10>>
    \o <<123,10,32,32,34,52,56,97>>

Responses == {Concat(ts) : ts \in SeqsUpTo(1..Len(TokenList), MaxTokens)} \cup {SAMPLE}

NoHeaders == [res |-> "none", age |-> NoAge, body |-> 0]

HeadersIdle == response = <<>> /\ hres = NoHeaders

ProcessHeaders ==
    /\ hres = NoHeaders
    /\ hres' = process_headers(response)
    /\ UNCHANGED <<response, ageVars, intoVars, unescapeVars, parseVars, tableVars, cacheVars, validateVars, extendVars>>

(***************************************************************************)
(* fetch::into, one step per await                                         *)
(***************************************************************************)
\* Largest buffer handed to fetch::into.
MaxFetchBuf == 8

IntoIdle == fs = [pc |-> "idle", cap |-> 0, bytes_read |-> 0, res |-> "none",
                  read_failed |-> FALSE]

\* into(buffer) was called: it awaits TcpStream::connect
IntoCalled(cap) ==
    fs = [pc |-> "connect", cap |-> cap, bytes_read |-> 0, res |-> "none",
          read_failed |-> FALSE]

\* TcpStream::connect(..).await.map_err(ErrorFetch::Connect)?
TcpConnect ==
    /\ fs.pc = "connect"
    /\ \E ok \in BOOLEAN :
          fs' = IF ok THEN [fs EXCEPT !.pc = "tls"]
                ELSE [fs EXCEPT !.pc = "done", !.res = "Connect"]
    /\ UNCHANGED <<ageVars, headerVars, validateVars, unescapeVars, parseVars,
                   tableVars, cacheVars, extendVars>>

\* CONNECTOR.connect(..).await.map_err(ErrorFetch::ConnectTcp)?
TlsConnect ==
    /\ fs.pc = "tls"
    /\ \E ok \in BOOLEAN :
          fs' = IF ok THEN [fs EXCEPT !.pc = "write"]
                ELSE [fs EXCEPT !.pc = "done", !.res = "ConnectTcp"]
    /\ UNCHANGED <<ageVars, headerVars, validateVars, unescapeVars, parseVars,
                   tableVars, cacheVars, extendVars>>

\* stream.write(REQUEST).await.map_err(ErrorFetch::RequestWrite)?
WriteRequest ==
    /\ fs.pc = "write"
    /\ \E ok \in BOOLEAN :
          fs' = IF ok THEN [fs EXCEPT !.pc = "read"]
                ELSE [fs EXCEPT !.pc = "done", !.res = "RequestWrite"]
    /\ UNCHANGED <<ageVars, headerVars, validateVars, unescapeVars, parseVars,
                   tableVars, cacheVars, extendVars>>

\* One turn of `while let Ok(n) = stream.read(&mut buffer[bytes_read..]).await`:
\* the read answers Err, Ok(0), or Ok(n) with n at most the room left.  Err
\* ends the loop like Ok(0) does, and Ok(bytes_read) is returned.
Read ==
    /\ fs.pc = "read"
    /\ \/ fs' = [fs EXCEPT !.pc = "done", !.res = "Ok", !.read_failed = TRUE]
       \/ fs' = [fs EXCEPT !.pc = "done", !.res = "Ok"]
       \/ \E n \in 1..(fs.cap - fs.bytes_read) :
             fs' = [fs EXCEPT !.bytes_read = fs.bytes_read + n]
    /\ UNCHANGED <<ageVars, headerVars, validateVars, unescapeVars, parseVars,
                   tableVars, cacheVars, extendVars>>

(***************************************************************************)
(* keys::Keys::extend_fetch_into on the bytes of the caller's buffer       *)
(***************************************************************************)
\* extend_try(crate::parse(..)): the for loop takes pairs from
\* Parse { ptr: p, len: n } over the memory m and pushes them.  As in
\* Parse::next, a yielded pair advances ptr and leaves len as it is, and a
\* read beyond the last byte of m faults.
RECURSIVE extend_try_parse(_, _, _, _)
extend_try_parse(t, m, p, n) ==
    LET r == scan(m, p, n, 0, <<>>) IN
    CASE r.kind = "none" -> [t |-> t, res |-> "Ok(true)"]
      [] r.kind = "fault" -> [t |-> t, res |-> "fault"]
      [] OTHER ->
           LET id_off == p + r.indices[1] + 1
               id_len == r.indices[2] - r.indices[1] - 1
               key_off == p + r.indices[3] + 1
               key_cap == r.indices[4] - r.indices[3] - 1
               u == unescape(Slice(m, key_off, key_cap))
               m2 == Patch(m, key_off, u.buf)
               pr == push(t, Slice(m2, id_off, id_len), Slice(m2, key_off, u.len))
           IN CASE pr.res = "Err" -> [t |-> pr.t, res |-> "Err"]
                [] pr.res = "Ok(false)" -> [t |-> pr.t, res |-> "Ok(false)"]
                [] OTHER -> extend_try_parse(pr.t, m2, p + r.i + 1, n)

\* Keys::extend_fetch_into once fetch::into has returned Ok(len):
\* process_headers is given the whole buffer, the parser buffer[body..len];
\* taking that slice panics when body > len.
extend_fetch_into_bytes(t, buffer, len) ==
    LET h == process_headers(buffer) IN
    IF h.res # "Ok"
    THEN [res |-> "HttpProcess", err |-> h.res, age |-> NoAge, t |-> t, body |-> 0]
    ELSE IF h.body > len
    THEN [res |-> "panic", err |-> "none", age |-> NoAge, t |-> t, body |-> h.body]
    ELSE LET r == extend_try_parse(t, buffer, h.body, len - h.body) IN
         CASE r.res = "Err" ->
                [res |-> "Jwt", err |-> "none", age |-> NoAge, t |-> r.t, body |-> h.body]
           [] r.res = "fault" ->
                [res |-> "fault", err |-> "none", age |-> NoAge, t |-> r.t, body |-> h.body]
           [] OTHER ->
                [res |-> r.res, err |-> "none", age |-> h.age, t |-> r.t, body |-> h.body]

\* What the fetch writes and what the buffer holds behind it: up to
\* MaxWritten and MaxLeftover pieces, each the end of a line, a max-age
\* header line, an Age header line, another byte, or the pair "a":"-k".
MaxWritten == 5
MaxLeftover == 2
FetchTokenList ==
    <<CRLF,
      MaxAgeMarker \o <<50>> \o CRLF,
      AgeMarker \o <<49>> \o CRLF,
      <<120>>,
      <<Quote, 97, Quote, 58, Quote, 45, 107, Quote>>>>

RECURSIVE FetchConcat(_)
FetchConcat(ts) ==
    IF ts = <<>> THEN <<>> ELSE FetchTokenList[ts[1]] \o FetchConcat(Tail(ts))

Written == {FetchConcat(ts) : ts \in SeqsUpTo(1..Len(FetchTokenList), MaxWritten)}
Leftover == {FetchConcat(ts) : ts \in SeqsUpTo(1..Len(FetchTokenList), MaxLeftover)}

NoExtend == [written |-> <<>>, rest |-> <<>>]
NotRun == [res |-> "none", err |-> "none", age |-> NoAge, t |-> KeysNew, body |-> 0]

ExtendIdle == xin = NoExtend /\ xres = <<NotRun, NotRun>>

\* the caller's buffer: the written bytes followed by zeroes (as the buffer
\* of extend_fetch) for i = 1, by the leftover bytes for i = 2
BufferOf(i) ==
    xin.written \o (IF i = 1 THEN [k \in 1..Len(xin.rest) |-> 0] ELSE xin.rest)

ExtendFetchInto ==
    /\ \E i \in 1..2 :
          /\ xres[i] = NotRun
          /\ xres' = [xres EXCEPT
                         ![i] = extend_fetch_into_bytes(KeysNew, BufferOf(i),
                                                        Len(xin.written))]
    /\ UNCHANGED <<xin, fetchVars, validateVars, unescapeVars, parseVars, tableVars,
                   cacheVars>>

(***************************************************************************)
(* keys::Keys::validate called on a filled table                           *)
(***************************************************************************)
NoValidate == [pairs |-> <<>>, token |-> [hdr_ok |-> FALSE, kid |-> None, sig |-> <<>>]]

ValidateIdle == vin = NoValidate /\ vres = "none"

KeysValidate ==
    /\ vres = "none"
    /\ vin # NoValidate
    /\ vres' = keys_validate(keys, vin.token)
    /\ UNCHANGED <<vin, fetchVars, unescapeVars, parseVars, tableVars, cacheVars, extendVars>>

(***************************************************************************)
(* Age::expiration called on its own                                       *)
(***************************************************************************)
\* Largest age and max_age handed to Age::expiration.
MaxAgeSeconds == 4

NoExpiration == [panic |-> FALSE, time |-> -1]

AgeIdle == age_in = [age |-> NoAge, time |-> 0] /\ age_out = NoExpiration

FetchIdle == AgeIdle /\ HeadersIdle /\ IntoIdle /\ ValidateIdle /\ ExtendIdle

Expiration ==
    /\ age_out = NoExpiration
    /\ age_out' = age_expiration(age_in.age, age_in.time)
    /\ UNCHANGED <<age_in, headerVars, intoVars, unescapeVars, parseVars, tableVars, cacheVars, validateVars, extendVars>>

(***************************************************************************)
(* unescape called on its own                                              *)
(***************************************************************************)
UnescapeIdle == us = <<>> /\ ur = NoResult

Unescape ==
    /\ ur = NoResult
    /\ ur' = unescape(us)
    /\ UNCHANGED <<us, parseVars, tableVars, cacheVars, fetchVars, validateVars, extendVars>>

(***************************************************************************)
(* Specifications                                                          *)
(***************************************************************************)
InitUnescape ==
    /\ us \in SeqsUpTo(UnescBytes, MaxUnescLen) \cup {HelloEscaped}
    /\ ur = NoResult
    /\ ParseIdle
    /\ TableNew
    /\ CacheNew
    /\ FetchIdle
    /\ now = 0

SpecUnescape == InitUnescape /\ [][Unescape]_vars

InitParse ==
    /\ \E b \in SeqsUpTo(ParseBytes, MaxBuf), t \in SeqsUpTo(ParseBytes, MaxTail) :
          ParseNew(b, t)
    /\ ExtendIdle
    /\ UnescapeIdle
    /\ TableNew
    /\ CacheNew
    /\ FetchIdle
    /\ now = 0

SpecParse == InitParse /\ [][ParseNext]_vars

InitAge ==
    /\ age_in \in [age : [age : 0..MaxAgeSeconds, max_age : 0..MaxAgeSeconds],
                   time : 0..MaxTime]
    /\ age_out = NoExpiration
    /\ HeadersIdle
    /\ IntoIdle
    /\ ValidateIdle
    /\ ExtendIdle
    /\ UnescapeIdle
    /\ ParseIdle
    /\ TableNew
    /\ CacheNew
    /\ now = 0

SpecAge == InitAge /\ [][Expiration]_vars

InitHeaders ==
    /\ response \in Responses
    /\ hres = NoHeaders
    /\ AgeIdle
    /\ IntoIdle
    /\ ValidateIdle
    /\ ExtendIdle
    /\ UnescapeIdle
    /\ ParseIdle
    /\ TableNew
    /\ CacheNew
    /\ now = 0

SpecHeaders == InitHeaders /\ [][ProcessHeaders]_vars

\* a table filled from the new table by one extend_try, and a token
InitValidate ==
    /\ \E pairs \in PairSeqs, token \in Tokens :
          \E r \in {extend_try(KeysNew, pairs)} :
          /\ keys = r.t
          /\ last = [op |-> "extend_try", args |-> pairs, pre |-> KeysNew, res |-> r.res,
                     taken |-> r.taken]
          /\ vin = [pairs |-> pairs, token |-> token]
    /\ vres = "none"
    /\ AgeIdle
    /\ HeadersIdle
    /\ IntoIdle
    /\ ExtendIdle
    /\ UnescapeIdle
    /\ ParseIdle
    /\ CacheNew
    /\ now = 0

SpecValidate == InitValidate /\ [][KeysValidate]_vars

InitFetch ==
    /\ \E cap \in 0..MaxFetchBuf : IntoCalled(cap)
    /\ AgeIdle
    /\ HeadersIdle
    /\ ValidateIdle
    /\ ExtendIdle
    /\ UnescapeIdle
    /\ ParseIdle
    /\ TableNew
    /\ CacheNew
    /\ now = 0

NextFetch == TcpConnect \/ TlsConnect \/ WriteRequest \/ Read

SpecFetch == InitFetch /\ [][NextFetch]_vars

InitExtendFetch ==
    /\ xin \in [written : Written, rest : Leftover]
    /\ xres = <<NotRun, NotRun>>
    /\ AgeIdle
    /\ HeadersIdle
    /\ IntoIdle
    /\ ValidateIdle
    /\ UnescapeIdle
    /\ ParseIdle
    /\ TableNew
    /\ CacheNew
    /\ now = 0

SpecExtendFetch == InitExtendFetch /\ [][ExtendFetchInto]_vars

InitTable == UnescapeIdle /\ ParseIdle /\ TableNew /\ CacheNew /\ FetchIdle /\ now = 0

NextTable == Push \/ ExtendTry \/ Clear

SpecTable == InitTable /\ [][NextTable]_vars

InitCache == UnescapeIdle /\ ParseIdle /\ TableNew /\ CacheNew /\ FetchIdle /\ now = 0

NextCache == Validate \/ Tick

SpecCache == InitCache /\ [][NextCache]_vars

NextCancel ==
    ValidateFresh \/ ValidateSuspend \/ FetchAwait \/ ValidateResume \/ Cancel \/ Tick

SpecCancel == InitCache /\ [][NextCancel]_vars

(***************************************************************************)
(* C1: as long as every refresh succeeds with a non-empty key set, a       *)
(* validate on an empty (new) cache fetches once, a validate made before   *)
(* the recorded deadline does not fetch, and a validate made after the     *)
(* deadline has passed fetches once.                                       *)
(***************************************************************************)
C1_FetchesExactlyWhenStale ==
    (call.op = "validate" /\ allok) =>
        /\ (call.pre_len = 0 => call.fetched = 1)
        /\ (call.pre_len > 0 /\ now < assume_init(call.pre_expiration)
               => call.fetched = 0)
        /\ (call.pre_len > 0 /\ now > assume_init(call.pre_expiration)
               => call.fetched = 1)

(***************************************************************************)
(* C2: is_valid answers true exactly when the table is non-empty and the   *)
(* clock has not reached the recorded deadline; an empty table is invalid  *)
(* whatever the deadline holds.                                            *)
(***************************************************************************)
C2_IsValidMeansFresh ==
    ~panicked =>
        /\ keys.len = 0 => is_valid(keys, expiration, now) = {FALSE}
        /\ (keys.len > 0 /\ expiration # Uninit) =>
              is_valid(keys, expiration, now) = {now < assume_init(expiration)}

(***************************************************************************)
(* C3: when the refresh step of validate fails, the table is empty when    *)
(* validate returns.                                                       *)
(***************************************************************************)
C3_FailedRefreshLeavesTableEmpty ==
    (call.op = "validate" /\ call.res = "FetchExtend") => keys.len = 0

(***************************************************************************)
(* C4: a non-empty table implies that the deadline was initialised by a    *)
(* refresh, so is_valid never reads an uninitialised deadline.  Stated of   *)
(* the states a returned validate call leaves.                             *)
(***************************************************************************)
C4_NonEmptyTableHasDeadline ==
    (~panicked /\ keys.len > 0) => expiration # Uninit

(***************************************************************************)
(* Reference definitions used to state the claims                          *)
(***************************************************************************)
\* s with every backslash+'n' replaced, left to right, by one newline
RECURSIVE RefReplace(_)
RefReplace(s) ==
    IF s = <<>> THEN <<>>
    ELSE IF Len(s) >= 2 /\ s[1] = Backslash /\ s[2] = LetterN
         THEN <<Newline>> \o RefReplace(SubSeq(s, 3, Len(s)))
         ELSE <<s[1]>> \o RefReplace(Tail(s))

\* the number of substitutions RefReplace makes
RECURSIVE CountEscapes(_)
CountEscapes(s) ==
    IF Len(s) < 2 THEN 0
    ELSE IF s[1] = Backslash /\ s[2] = LetterN
         THEN 1 + CountEscapes(SubSeq(s, 3, Len(s)))
         ELSE CountEscapes(Tail(s))

HasEscape(s) == \E i \in 1..(Len(s) - 1) : s[i] = Backslash /\ s[i + 1] = LetterN

\* the offsets of the quote bytes of b, in increasing order
RECURSIVE QuoteOffsets(_, _)
QuoteOffsets(b, from) ==
    IF from >= Len(b) THEN <<>>
    ELSE IF b[from + 1] = Quote THEN <<from>> \o QuoteOffsets(b, from + 1)
         ELSE QuoteOffsets(b, from + 1)

\* the pairs of the complete groups of four quotes of b
ExpectedPairs(b) ==
    LET q == QuoteOffsets(b, 0) IN
    [g \in 1..(Len(q) \div 4) |->
        <<Slice(b, q[4 * g - 3] + 1, q[4 * g - 2] - q[4 * g - 3] - 1),
          RefReplace(Slice(b, q[4 * g - 1] + 1, q[4 * g] - q[4 * g - 1] - 1))>>]

Yielded == [i \in 1..Len(out) |-> <<out[i].id, out[i].key>>]

IsPrefix(a, b) == Len(a) <= Len(b) /\ a = SubSeq(b, 1, Len(a))

(***************************************************************************)
(* C5: iterating the parser over a buffer yields exactly the pairs of the  *)
(* buffer's complete groups of four quotes, in order, and then ends        *)
(* without error.  Stated of every state of the iteration: what has been   *)
(* yielded is a prefix of the expected pairs, and when next() has returned *)
(* None all expected pairs were yielded.                                   *)
(***************************************************************************)
C5_YieldsExactlyTheGroups ==
    /\ IsPrefix(Yielded, ExpectedPairs(data0))
    /\ (pstat = "done" => Yielded = ExpectedPairs(data0))

(***************************************************************************)
(* C6: every yielded identifier and key slice lies inside the buffer the   *)
(* parser was created over, and no byte at or beyond the buffer's end is   *)
(* read or written.                                                        *)
(***************************************************************************)
C6_StaysInsideBuffer ==
    /\ hi < blen
    /\ \A i \in 1..Len(out) :
          /\ out[i].id_off + out[i].id_len <= blen
          /\ out[i].key_off + out[i].key_len <= blen

(***************************************************************************)
(* C7: unescape(s) returns the prefix of s that holds s with every         *)
(* backslash+'n' replaced, left to right in one pass, by one newline; the  *)
(* result holds no backslash+'n', its length is len(s) minus the number of *)
(* substitutions, and the 14 bytes of hello\nworld\n become the 12 bytes   *)
(* with two newlines.                                                      *)
(***************************************************************************)
C7_UnescapeReplacesEscapes ==
    ur # NoResult =>
        LET r == SubSeq(ur.buf, 1, ur.len) IN
        /\ Len(ur.buf) = Len(us)
        /\ ur.len = Len(us) - CountEscapes(us)
        /\ r = RefReplace(us)
        /\ ~HasEscape(r)
        /\ (us = HelloEscaped => r = HelloPlain /\ ur.len = 12)

\* two adjacent escapes have been collapsed, and the test's input unescaped
C7_Witness ==
    /\ ur # NoResult
    /\ \/ us = <<Backslash, LetterN, Backslash, LetterN>> /\ ur.len = 2
       \/ us = HelloEscaped /\ ur.len = 12

(***************************************************************************)
(* Reference definitions for the key table                                 *)
(***************************************************************************)
Min(a, b) == IF a <= b THEN a ELSE b

AllValid(pairs) == \A i \in 1..Len(pairs) : from_rsa_pem(pairs[i][2]).ok

\* the position of the first pair whose key does not parse, 0 if none
FirstBad(pairs) ==
    IF AllValid(pairs) THEN 0
    ELSE CHOOSE i \in 1..Len(pairs) :
            /\ ~from_rsa_pem(pairs[i][2]).ok
            /\ \A j \in 1..(i - 1) : from_rsa_pem(pairs[j][2]).ok

\* t holds the first c pairs of pairs in the slots from n on, in order,
\* and is pre everywhere else
HoldsPrefix(t, pre, pairs, n, c) ==
    /\ t.len = n + c
    /\ \A i \in 0..(KEYS_CAPACITY - 1) :
          IF i >= n /\ i < n + c
          THEN /\ t.id[i] = <<hash(pairs[i - n + 1][1])>>
               /\ t.key[i] = <<from_rsa_pem(pairs[i - n + 1][2]).key>>
          ELSE /\ t.id[i] = pre.id[i]
               /\ t.key[i] = pre.key[i]

(***************************************************************************)
(* C8: len <= CAPACITY in every state reachable by push, extend_try and    *)
(* clear, and a push on a full table answers Ok(false) and changes neither *)
(* len nor any entry.                                                      *)
(***************************************************************************)
C8_LenWithinCapacity ==
    /\ keys.len <= KEYS_CAPACITY
    /\ (last.op = "push" /\ last.pre.len = KEYS_CAPACITY) =>
          (last.res = "Ok(false)" /\ keys = last.pre)

\* a push was made on a full table
C8_Witness ==
    /\ last.op = "push"
    /\ last.pre.len = KEYS_CAPACITY
    /\ last.res = "Ok(false)"

(***************************************************************************)
(* C9: a push whose key fails to parse returns the parse error and leaves  *)
(* the table (len and every slot) as it was; extend_try returns the first  *)
(* parse failure it meets, pushes nothing after it and keeps the entries   *)
(* pushed before it.                                                       *)
(***************************************************************************)
C9_ParseFailureCommitsNothing ==
    /\ last.op = "push" =>
          LET bad == ~from_rsa_pem(last.args[1][2]).ok IN
          /\ (last.res = "Err") = (bad /\ last.pre.len < KEYS_CAPACITY)
          /\ (last.res = "Err" => keys = last.pre)
    /\ last.op = "extend_try" =>
          LET f == FirstBad(last.args)
              n == last.pre.len
          IN /\ (last.res = "Err") = (f # 0 /\ f <= KEYS_CAPACITY - n)
             /\ (last.res = "Err" => HoldsPrefix(keys, last.pre, last.args, n, f - 1))

\* on a table holding one entry an extend_try of 5 pairs failed at its third
\* pair, after pushing two
C9_Witness ==
    /\ last.op = "extend_try"
    /\ last.res = "Err"
    /\ last.pre.len = 1
    /\ keys.len = 3
    /\ Len(last.args) = 5

(***************************************************************************)
(* C10: given m valid pairs, a table holding n entries inserts the first   *)
(* min(m, CAPACITY - n) in order and answers true exactly when             *)
(* m <= CAPACITY - n.  get then succeeds for every inserted identifier,    *)
(* and fails for an identifier that was not inserted and whose hash is     *)
(* that of no entry (the 5th of 5 pairs given to an empty table).          *)
(***************************************************************************)
C10_ExtendInsertsWhatFits ==
    (last.op = "extend_try" /\ AllValid(last.args)) =>
        LET pairs == last.args
            m == Len(pairs)
            n == last.pre.len
            c == Min(m, KEYS_CAPACITY - n)
        IN /\ HoldsPrefix(keys, last.pre, pairs, n, c)
           /\ last.res = (IF m <= KEYS_CAPACITY - n THEN "Ok(true)" ELSE "Ok(false)")
           /\ \A i \in 1..c : get(keys, pairs[i][1]) # None
           /\ \A i \in (c + 1)..m :
                 (\A j \in 0..(keys.len - 1) : keys.id[j] # <<hash(pairs[i][1])>>)
                    => get(keys, pairs[i][1]) = None

\* an empty table was given 5 valid pairs: 4 went in, the 5th is not found
C10_Witness ==
    /\ last.op = "extend_try"
    /\ AllValid(last.args)
    /\ Len(last.args) = 5
    /\ last.pre.len = 0
    /\ last.res = "Ok(false)"
    /\ keys.len = KEYS_CAPACITY
    /\ \A i \in 1..4 : get(keys, last.args[i][1]) # None
    /\ get(keys, last.args[5][1]) = None

(***************************************************************************)
(* C11: get(identifier) returns the key of the lowest-index entry among    *)
(* the first len slots whose stored hash is the identifier's hash, and     *)
(* None when there is none; entries with equal hashes are all kept and the *)
(* first wins.  After clear, len is 0 and get returns None for every       *)
(* identifier, although the slots still hold what they held.               *)
(***************************************************************************)
C11_GetReturnsFirstMatch ==
    /\ \A id_bytes \in Ids :
          LET live == {i \in 0..(keys.len - 1) : keys.id[i] = <<hash(id_bytes)>>}
          IN IF live = {} THEN get(keys, id_bytes) = None
             ELSE \E i \in live :
                     /\ \A j \in live : i <= j
                     /\ get(keys, id_bytes) = keys.key[i]
    /\ last.op = "clear" =>
          /\ keys.len = 0
          /\ keys.id = last.pre.id
          /\ keys.key = last.pre.key
          /\ \A id_bytes \in Ids : get(keys, id_bytes) = None
    /\ last.op = "push" /\ last.res = "Ok(true)" =>
          /\ keys.len = last.pre.len + 1
          /\ \A i \in 0..(last.pre.len - 1) :
                keys.id[i] = last.pre.id[i] /\ keys.key[i] = last.pre.key[i]

\* a table whose first two entries share a hash and hold different keys was
\* cleared, and one push has overwritten slot 0 since: the lookup finds the
\* new entry only, the old slot 1 is still written
C11_Witness ==
    /\ last.op = "push"
    /\ last.res = "Ok(true)"
    /\ last.pre.len = 0
    /\ keys.len = 1
    /\ keys.id[1] # Uninit
    /\ keys.id[1] = last.pre.id[0]
    /\ keys.key[1] # last.pre.key[0]
    /\ keys.id[0] # keys.id[1]
    /\ get(keys, IdB) = keys.key[0]
    /\ get(keys, IdA) = None

(***************************************************************************)
(* C12: for an Age with max_age >= age the expiration computed from an     *)
(* instant t is t + (max_age - age) seconds; for max_age < age the         *)
(* remaining seconds are clamped to 0, the expiration is t itself, and the *)
(* subtraction neither underflows, wraps nor aborts.                       *)
(***************************************************************************)
C12_ExpirationClamped ==
    age_out # NoExpiration =>
        /\ ~age_out.panic
        /\ age_out.time = age_in.time +
              (IF age_in.age.max_age >= age_in.age.age
               THEN age_in.age.max_age - age_in.age.age
               ELSE 0)

(***************************************************************************)
(* Reference definitions for process_headers                               *)
(***************************************************************************)
\* the offsets at which needle occurs in s
Occurrences(s, needle) ==
    {i \in 0..(Len(s) - Len(needle)) : \A k \in 1..Len(needle) : s[i + k] = needle[k]}

Least(S) == CHOOSE i \in S : \A j \in S : i <= j

\* the decimal value of the digits of s that start at offset from
RECURSIVE NumberAt(_, _, _)
NumberAt(s, from, acc) ==
    IF from < Len(s) /\ s[from + 1] \in Digit0..Digit9
    THEN NumberAt(s, from + 1, 10 * acc + (s[from + 1] - Digit0))
    ELSE acc

DigitAt(s, from) == from < Len(s) /\ s[from + 1] \in Digit0..Digit9

\* the occurrences of needle in s after the first line terminator of s
AfterFirstLine(s, needle) ==
    LET nls == Occurrences(s, <<Newline>>) IN
    IF nls = {} THEN {} ELSE {i \in Occurrences(s, needle) : i > Least(nls)}

(***************************************************************************)
(* C13: for a response that holds, after its first line terminator, a      *)
(* max-age marker followed by digits and a CR LF CR LF separator,          *)
(* process_headers returns the integers that follow the max-age and Age    *)
(* markers and a body offset that is the index, in the response, of the    *)
(* byte just after the first such separator; on the sample it returns      *)
(* Age{age: 9, max_age: 22270} and the byte at the offset is the body's    *)
(* opening brace.                                                          *)
(***************************************************************************)
C13_BodyOffsetAfterSeparator ==
    hres # NoHeaders =>
        LET marks == AfterFirstLine(response, MaxAgeMarker)
            ages == AfterFirstLine(response, AgeMarker)
            seps == AfterFirstLine(response, crlfcrlf)
        IN /\ (/\ marks # {}
               /\ seps # {}
               /\ DigitAt(response, Least(marks) + Len(MaxAgeMarker))) =>
                  /\ hres.res = "Ok"
                  /\ hres.age.max_age =
                        NumberAt(response, Least(marks) + Len(MaxAgeMarker), 0)
                  /\ ages # {} =>
                        hres.age.age = NumberAt(response, Least(ages) + Len(AgeMarker), 0)
                  /\ hres.body = Least(seps) + Len(crlfcrlf)
           /\ response = SAMPLE =>
                  /\ hres.res = "Ok"
                  /\ hres.age = [age |-> 9, max_age |-> 22270]
                  /\ hres.body < Len(response)
                  /\ response[hres.body + 1] = 123

\* the bytes process_headers searches: the response from its first line
\* terminator on, the whole response when it has none
Searched(s) ==
    LET nls == Occurrences(s, <<Newline>>) IN
    IF nls = {} THEN s ELSE SubSeq(s, Least(nls) + 1, Len(s))

\* no max-age marker followed by a digit occurs in s
NoMaxAge(s) ==
    \A i \in Occurrences(s, MaxAgeMarker) : ~DigitAt(s, i + Len(MaxAgeMarker))

\* the first max-age marker of the searched bytes is followed by a digit
MaxAgeParsed(s) ==
    /\ Occurrences(Searched(s), MaxAgeMarker) # {}
    /\ DigitAt(Searched(s), Least(Occurrences(Searched(s), MaxAgeMarker)) + Len(MaxAgeMarker))

\* the Age marker is absent, max-age and the separator are found: the call
\* succeeds with age 0 and the parsed max_age
AgeAbsentIsZero ==
    (/\ Occurrences(response, AgeMarker) = {}
     /\ MaxAgeParsed(response)
     /\ Occurrences(Searched(response), crlfcrlf) # {}) =>
        /\ hres.res = "Ok"
        /\ hres.age.age = 0
        /\ hres.age.max_age =
              NumberAt(Searched(response),
                       Least(Occurrences(Searched(response), MaxAgeMarker))
                          + Len(MaxAgeMarker), 0)

(***************************************************************************)
(* C14, as stated: process_headers fails with MaxAge when no max-age       *)
(* marker followed by digits is present, fails with Body when no blank-    *)
(* line separator is present, and does not fail when the Age marker is     *)
(* absent: it then returns age = 0 with the parsed max_age.                *)
(***************************************************************************)
C14_AsStated ==
    hres # NoHeaders =>
        /\ NoMaxAge(response) => hres.res = "MaxAge"
        /\ Occurrences(response, crlfcrlf) = {} => hres.res = "Body"
        /\ AgeAbsentIsZero

(***************************************************************************)
(* C14, amended: process_headers fails with MaxAge when no max-age marker  *)
(* followed by digits is present, whether or not a separator is present;   *)
(* it fails with Body when a max-age value was parsed and no separator is  *)
(* present; and it does not fail when the Age marker is absent: it then    *)
(* returns age = 0 with the parsed max_age.                                *)
(***************************************************************************)
C14_HeaderFailures ==
    hres # NoHeaders =>
        /\ NoMaxAge(response) => hres.res = "MaxAge"
        /\ (MaxAgeParsed(response) /\ Occurrences(response, crlfcrlf) = {}) =>
              hres.res = "Body"
        /\ AgeAbsentIsZero

\* max-age was parsed from a response with neither a separator nor an Age
\* marker, and the call failed with Body
C14_Witness ==
    /\ hres.res = "Body"
    /\ MaxAgeParsed(response)
    /\ Occurrences(response, crlfcrlf) = {}
    /\ Occurrences(response, AgeMarker) = {}

(***************************************************************************)
(* Reference definitions for Keys::validate                                *)
(***************************************************************************)
\* the identifiers the table's entries were stored under, in slot order
StoredIds == [i \in 1..keys.len |-> vin.pairs[i][1]]

KidIsStored(kid) == \E i \in 1..keys.len : StoredIds[i] = kid

KidHashIsStored(kid) == \E i \in 1..keys.len : hash(StoredIds[i]) = hash(kid)

(***************************************************************************)
(* C15, as stated: a token whose kid matches no entry's identifier yields  *)
(* UnknownKey, whether the table is empty or holds other keys, so that no  *)
(* key stored under a different identifier is ever used for it; a token    *)
(* with no kid yields TokenMissingKeyId.                                   *)
(***************************************************************************)
C15_AsStated ==
    (vres # "none" /\ vin.token.hdr_ok) =>
        /\ (vin.token.kid # None /\ ~KidIsStored(vin.token.kid[1])) =>
              vres = "UnknownKey"
        /\ vin.token.kid = None => vres = "TokenMissingKeyId"

(***************************************************************************)
(* C15, amended: a token whose kid has the hash of no entry yields         *)
(* UnknownKey, whether the table is empty or holds other keys; a kid that  *)
(* was not stored but has the hash of a stored identifier is verified with *)
(* the key of the first entry of that hash; a token with no kid yields     *)
(* TokenMissingKeyId.                                                      *)
(***************************************************************************)
C15_UnknownKeyByHash ==
    (vres # "none" /\ vin.token.hdr_ok) =>
        /\ (vin.token.kid # None /\ ~KidHashIsStored(vin.token.kid[1])) =>
              vres = "UnknownKey"
        /\ (vin.token.kid # None /\ KidHashIsStored(vin.token.kid[1])) =>
              LET first == Least({i \in 1..keys.len :
                                    hash(StoredIds[i]) = hash(vin.token.kid[1])})
              IN vres = (IF decode(vin.token, from_rsa_pem(vin.pairs[first][2]).key)
                         THEN "Ok" ELSE "DecodeToken")
        /\ vin.token.kid = None => vres = "TokenMissingKeyId"

\* a table holding keys under other identifiers, none with the hash of the
\* token's kid: UnknownKey
C15_Witness ==
    /\ vres = "UnknownKey"
    /\ keys.len > 0
    /\ vin.token.kid # None
    /\ ~KidHashIsStored(vin.token.kid[1])

(***************************************************************************)
(* C20: no transport error is swallowed: when a read of the response fails *)
(* after the request was written, fetch::into returns a transport error,   *)
(* never Ok with the number of bytes read so far.                          *)
(***************************************************************************)
C20_ReadErrorIsReturned ==
    (fs.pc = "done" /\ fs.read_failed) => fs.res # "Ok"

(***************************************************************************)
(* C16: cache validate returns Error::FetchExtend exactly when a refresh   *)
(* was attempted and failed, and Error::Validate (or the claims) only when *)
(* no refresh was needed or the refresh succeeded; the two outcomes are    *)
(* never confused.                                                         *)
(***************************************************************************)
ValidateErrors == {"DecodeHeader", "TokenMissingKeyId", "UnknownKey", "DecodeToken"}

C16_ErrorsNotConfused ==
    (call.op = "validate" /\ call.res # "panic") =>
        /\ (call.res = "FetchExtend") = (call.fetched = 1 /\ call.failed)
        /\ call.res \in ValidateErrors => (call.fetched = 0 \/ ~call.failed)

(***************************************************************************)
(* C17: a validate call cancelled while suspended in the fetch leaves the  *)
(* cache with an empty (cleared) table, which is_valid reports as not      *)
(* valid, never with a partially filled one: while the call is suspended   *)
(* in the fetch no key has been pushed.                                    *)
(***************************************************************************)
C17_CancelLeavesTableCleared ==
    /\ vpc # "idle" => keys.len = 0
    /\ call.op = "cancelled" =>
          /\ keys.len = 0
          /\ is_valid(keys, expiration, now) = {FALSE}

\* a call that found a non-empty table, cleared it and reached the read
\* loop of the fetch was cancelled
C17_Witness ==
    /\ call.op = "cancelled"
    /\ call.pre_len > 0
    /\ vpc = "idle"
    /\ keys.id[0] # Uninit
    /\ keys.len = 0

(***************************************************************************)
(* C18: when extend_try stops because the capacity is exhausted, the       *)
(* remaining pairs are left unconsumed: extend_try has taken from the      *)
(* sequence no pair that it did not insert.                                *)
(***************************************************************************)
C18_TakesOnlyWhatItInserts ==
    (last.op = "extend_try" /\ last.res = "Ok(false)") =>
        last.taken = keys.len - last.pre.len

C21_BodyRangeValid ==
    \A i \in 1..2 :
        (xres[i] # NotRun /\ xres[i].res # "HttpProcess") =>
            /\ xres[i].body <= Len(xin.written)
            /\ xres[i].res # "panic"

(***************************************************************************)
(* C22: the result of extend_fetch_into (the Age, the keys pushed, the     *)
(* outcome) depends only on the bytes the fetch wrote: two buffers that    *)
(* differ only at positions at or beyond bytes_written give the same Age,  *)
(* the same table contents and the same outcome.                           *)
(***************************************************************************)
Outcome(r) == [res |-> r.res, err |-> r.err, age |-> r.age, t |-> r.t]

C22_DependsOnWrittenBytesOnly ==
    (/\ xres[1] # NotRun
     /\ xres[2] # NotRun
     /\ xres[1].res # "fault"
     /\ xres[2].res # "fault") =>
        Outcome(xres[1]) = Outcome(xres[2])

====
